---- MODULE Spec2Model ----
(***************************************************************************)
(* Model of the candidate selection and concurrent reachability            *)
(* verification of cm-IP: src/中转/ip2.py (GeoIP variant, thread pool) and  *)
(* src/中转/ip.py (tag-matching variant, sequential).                       *)
(*                                                                         *)
(* Strings are modelled as sequences of tokens.  A token is a maximal      *)
(* piece of a line that the code treats as a unit: one whitespace          *)
(* character, one line break, one dotted quad, one "#xx" tag, one CIDR     *)
(* suffix ("/24"), one word.  No line of the pools below puts a digit next *)
(* to a dotted quad, so the regular expression RE_IPV4 matches exactly at  *)
(* the quad tokens, and its group 1 is the quad without the suffix.        *)
(***************************************************************************)
EXTENDS Integers, Sequences, FiniteSets, TLC

VARIABLES
    text,        \* the fetched text, a sequence of tokens (main: text)
    verdict,     \* what is_reachable does for each address: "up", "down", "raise"
    entry,       \* who runs: "main" (ip2.py main), "call" (run_concurrent_tests called
                 \* directly), "tag" (ip.py main), "collect" (collect_candidates alone)
    pc,          \* position of the coordinating thread
    candidates,  \* ip2: list of (idx, line, tag, ip)
    tagCandidates, \* ip.py: list of (idx, line, tag)
    tagSaved,    \* ip.py save_candidates: country -> list of <<idx, line>>
    tagOut,      \* ip.py save_candidates: lines written to the output file
    workers,     \* max_workers of the ThreadPoolExecutor (0: no executor yet)
    fstate,      \* per submitted future: "queued", "taken", "running", "finished", "cancelled"
    snap,        \* as_completed: futures found finished when it started, not yet yielded
    arrivals,    \* as_completed: waiter.finished_futures, in finishing order
    yielded,     \* futures as_completed has already yielded, in the order it yielded them
    saved,       \* country -> list of <<idx, line>>, in order of acceptance
    tested,      \* the counter of run_concurrent_tests
    ci,          \* position of the cancellation loop (lines 187-192)
    out,         \* lines written to the output file
    written,     \* whether the output file was opened for writing
    outcome,     \* what main reported
    inFlightAtStop \* history: futures that were running when line 186 found all quotas met

vars == <<text, verdict, entry, pc, candidates, tagCandidates, tagSaved, tagOut, workers, fstate,
          snap, arrivals, yielded, saved, tested, ci, out, written, outcome, inFlightAtStop>>

----------------------------------------------------------------------------
\* Bounds of the model.

\* Longest input text, in lines, of the main program.
MaxLines == 4
\* Longest input text, in lines, of the collection-only specification.
MaxCollectLines == 3
\* Longest input text, in lines, behind a direct call of run_concurrent_tests.
MaxCallLines == 2
\* Longest input text, in lines, of the termination specification.
MaxLiveLines == 4
\* How many entries of the source's COUNTRIES list the model keeps.
NumCountries == 2
\* MAX_PER_COUNTRY scaled down: the first country's quota and the others'.
QuotaFirst == 2
QuotaRest == 1
\* MAX_WORKERS (8 in the source) scaled down.
MAX_WORKERS == 2

----------------------------------------------------------------------------
\* Configuration (ip2.py lines 27-46, ip.py lines 19-33).

AllCountries == <<"sg", "hk", "jp", "tw", "kr", "us">>

COUNTRIES == SubSeq(AllCountries, 1, NumCountries)

CountrySet == {COUNTRIES[k] : k \in 1..Len(COUNTRIES)}

\* MAX_PER_COUNTRY.get(c, 0)
MAX_PER_COUNTRY(c) ==
    IF c \notin CountrySet THEN 0
    ELSE IF c = COUNTRIES[1] THEN QuotaFirst ELSE QuotaRest

None == "None"

----------------------------------------------------------------------------
\* Tokens.

WS == "_"
NL == "NL"

\* The dotted quads of the pools and their four components.
Octets(tok) ==
    CASE tok = "1.1.1.1" -> <<1, 1, 1, 1>>
      [] tok = "2.2.2.2" -> <<2, 2, 2, 2>>
      [] tok = "3.3.3.3" -> <<3, 3, 3, 3>>
      [] tok = "9.9.9.9" -> <<9, 9, 9, 9>>
      [] tok = "300.1.1.1" -> <<300, 1, 1, 1>>
      [] OTHER -> <<>>

\* RE_IPV4 matches at this token.
IsQuad(tok) == Octets(tok) # <<>>

\* The GeoIP database: reader.country(ip).country.iso_code.lower(); a miss raises.
GeoCountry(ip) ==
    CASE ip = "1.1.1.1" -> "sg"
      [] ip = "2.2.2.2" -> "sg"
      [] ip = "3.3.3.3" -> "hk"
      [] ip = "9.9.9.9" -> "cn"
      [] OTHER -> None

\* str.lower() on one token.
Lower(tok) ==
    CASE tok = "#SG" -> "#sg"
      [] tok = "#HK" -> "#hk"
      [] OTHER -> tok

\* The country codes c for which "#c" is a substring of the (lowered) token.
TagsIn(tok) ==
    CASE tok = "#sg" -> {"sg"}
      [] tok = "#hk" -> {"hk"}
      [] tok = "#sgx" -> {"sg"}
      [] OTHER -> {}

\* The first character of the token is a word character (\w).
StartsWithWord(tok) == tok \notin {WS, NL, "#sg", "#hk", "#SG", "#HK", "#sgx", "/24"}

----------------------------------------------------------------------------
\* String functions.

Min(a, b) == IF a < b THEN a ELSE b
Max(a, b) == IF a > b THEN a ELSE b

RECURSIVE lstrip(_)
lstrip(s) == IF s # <<>> /\ Head(s) = WS THEN lstrip(Tail(s)) ELSE s

RECURSIVE rstrip(_)
rstrip(s) ==
    IF s # <<>> /\ s[Len(s)] = WS THEN rstrip(SubSeq(s, 1, Len(s) - 1)) ELSE s

\* raw.strip()
strip(s) == rstrip(lstrip(s))

\* text.splitlines(): a trailing line break opens no further line.
RECURSIVE SplitFrom(_, _, _)
SplitFrom(t, cur, acc) ==
    IF t = <<>> THEN (IF cur = <<>> THEN acc ELSE Append(acc, cur))
    ELSE IF Head(t) = NL THEN SplitFrom(Tail(t), <<>>, Append(acc, cur))
    ELSE SplitFrom(Tail(t), Append(cur, Head(t)), acc)

splitlines(t) == SplitFrom(t, <<>>, <<>>)

\* "\n".join(lines): how the texts of the pools are built.
RECURSIVE JoinLines(_)
JoinLines(ls) ==
    IF ls = <<>> THEN <<>>
    ELSE IF Len(ls) = 1 THEN ls[1]
    ELSE ls[1] \o <<NL>> \o JoinLines(Tail(ls))

\* m = RE_IPV4.search(line); m.group(1): the first dotted quad of the line.
RECURSIVE FirstQuad(_)
FirstQuad(line) ==
    IF line = <<>> THEN None
    ELSE IF IsQuad(Head(line)) THEN Head(line)
    ELSE FirstQuad(Tail(line))

\* The dotted quad has four components in 0..255.
ValidQuad(tok) == IsQuad(tok) /\ \A k \in 1..4 : 0 <= Octets(tok)[k] /\ Octets(tok)[k] <= 255

\* The first dotted quad of the line among those with four components in 0..255.
RECURSIVE FirstValidQuad(_)
FirstValidQuad(line) ==
    IF line = <<>> THEN None
    ELSE IF ValidQuad(Head(line)) THEN Head(line)
    ELSE FirstValidQuad(Tail(line))

\* extract_ipv4 (the same in both files).
extract_ipv4Mut(line) == FirstValidQuad(line)
extract_ipv4(line) ==
    LET ip == FirstQuad(line) IN
    IF ip = None THEN None
    ELSE IF \E k \in 1..4 : ~(0 <= Octets(ip)[k] /\ Octets(ip)[k] <= 255) THEN None
    ELSE ip

\* ip2.py primary_tag_of_line: the GeoIP country of the line's address.
primary_tag_of_line(line) ==
    LET ip == extract_ipv4(line) IN
    IF ip = None THEN None
    ELSE IF GeoCountry(ip) = None THEN None
    ELSE IF GeoCountry(ip) \in CountrySet THEN GeoCountry(ip)
    ELSE None

\* ip.py PAT_TAG.search(line): a tag of the vocabulary followed by a word boundary.
PAT_TAG_search(line) ==
    \E k \in 1..Len(line) :
        /\ Lower(line[k]) \in {"#sg", "#hk"}
        /\ (k = Len(line) \/ ~StartsWithWord(line[k + 1]))

\* ip.py primary_tag_of_line: the first country of COUNTRIES whose "#c" occurs.
primary_tag_of_line_tagMut(line) ==
    LET hits == {k \in 1..Len(COUNTRIES) :
                    \E j \in 1..Len(line) : COUNTRIES[k] \in TagsIn(Lower(line[j]))}
    IN  IF hits = {} THEN None
        ELSE COUNTRIES[CHOOSE k \in hits : \A h \in hits : k >= h]
primary_tag_of_line_tag(line) ==
    LET hits == {k \in 1..Len(COUNTRIES) :
                    \E j \in 1..Len(line) : COUNTRIES[k] \in TagsIn(Lower(line[j]))}
    IN  IF hits = {} THEN None
        ELSE COUNTRIES[CHOOSE k \in hits : \A h \in hits : k <= h]

----------------------------------------------------------------------------
\* collect_candidates.

\* What `seen` holds for a line: the stripped line (ip2.py 144-149, ip.py 97-104).
SeenKeyMut(raw, line) == raw
SeenKey(raw, line) == line

\* `if line in seen: continue` (ip2.py 147-148, ip.py 102-103)
SeenSkipMut(key, seen) == FALSE
SeenSkip(key, seen) == key \in seen

\* ip2.py collect_candidates, the loop from line k on (idx = k - 1).
RECURSIVE CollectFrom(_, _, _, _)
CollectFrom(lines, k, seen, acc) ==
    IF k > Len(lines) THEN acc
    ELSE LET line == strip(lines[k])
             key == SeenKey(lines[k], line)
         IN
         IF line = <<>> THEN CollectFrom(lines, k + 1, seen, acc)
         ELSE IF SeenSkip(key, seen) THEN CollectFrom(lines, k + 1, seen, acc)
         ELSE LET tag == primary_tag_of_line(line)
                  ip == extract_ipv4(line)
              IN  IF tag = None THEN CollectFrom(lines, k + 1, seen \cup {key}, acc)
                  ELSE IF ip = None THEN CollectFrom(lines, k + 1, seen \cup {key}, acc)
                  ELSE CollectFrom(lines, k + 1, seen \cup {key},
                           Append(acc, [idx |-> k - 1, line |-> line, tag |-> tag, ip |-> ip]))

collect_candidates(t) == CollectFrom(splitlines(t), 1, {}, <<>>)

\* ip.py collect_candidates, the loop from line k on.
RECURSIVE CollectTagFrom(_, _, _, _)
CollectTagFrom(lines, k, seen, acc) ==
    IF k > Len(lines) THEN acc
    ELSE LET line == strip(lines[k])
             key == SeenKey(lines[k], line)
         IN
         IF line = <<>> THEN CollectTagFrom(lines, k + 1, seen, acc)
         ELSE IF ~PAT_TAG_search(line) THEN CollectTagFrom(lines, k + 1, seen, acc)
         ELSE IF SeenSkip(key, seen) THEN CollectTagFrom(lines, k + 1, seen, acc)
         ELSE LET tag == primary_tag_of_line_tag(line)
                  ip == extract_ipv4(line)
              IN  IF tag = None THEN CollectTagFrom(lines, k + 1, seen \cup {key}, acc)
                  ELSE IF ip = None THEN CollectTagFrom(lines, k + 1, seen \cup {key}, acc)
                  ELSE CollectTagFrom(lines, k + 1, seen \cup {key},
                           Append(acc, [idx |-> k - 1, line |-> line, tag |-> tag]))

collect_candidates_tag(t) == CollectTagFrom(splitlines(t), 1, {}, <<>>)

----------------------------------------------------------------------------
\* Inputs.

\* Lines of the main program's input: three sg/hk addresses, two lines on one
\* address, one line that differs from another only by surrounding whitespace,
\* and one line without an address.
MainPool ==
    { <<"1.1.1.1">>, <<"2.2.2.2">>, <<"3.3.3.3">>, <<"3.3.3.3", WS, "x">>,
      <<WS, "2.2.2.2", WS>>, <<"x">> }

\* Lines of the collection-only specification: tags, case, glued tags, an
\* unrecognized country, an out-of-range quad before a valid one, a CIDR
\* suffix, a blank line.
CollectPool ==
    { <<"1.1.1.1", WS, "#sg">>, <<WS, "1.1.1.1", WS, "#sg", WS>>,
      <<"3.3.3.3", "#HK">>, <<"#sgx", WS, "2.2.2.2", WS, "#hk">>,
      <<"#sg", "2.2.2.2">>, <<"9.9.9.9", WS, "#hk">>,
      <<"300.1.1.1", WS, "1.1.1.1", WS, "#sg">>, <<"2.2.2.2", "/24", WS, "#sg">>,
      <<"x">>, <<WS>> }

Addrs == {"1.1.1.1", "2.2.2.2", "3.3.3.3"}

Verdicts == {"up", "down", "raise"}

LineSeqs(pool, n) == UNION {[1..k -> pool] : k \in 0..n}

TextsOver(pool, n) == {JoinLines(ls) : ls \in LineSeqs(pool, n)}

----------------------------------------------------------------------------
\* run_concurrent_tests: helpers.

\* saved = {c: [] for c in COUNTRIES}
EmptySavedMut == [c \in {} |-> <<>>]
EmptySaved == [c \in CountrySet |-> <<>>]

\* workers = min(MAX_WORKERS, max(1, len(candidates)))
PoolSizeMut(n) == Max(1, n)
PoolSize(n) == Min(MAX_WORKERS, Max(1, n))

\* tested += 1 (line 179, before the verdict is read)
TestedAfterMut(t, ok) == IF ok THEN t + 1 ELSE t
TestedAfter(t, ok) == t + 1

\* try: ok = fut.result() / except Exception: ok = False (lines 180-183):
\* the probe's return value, or False when the probe raised.
ResultOrFalseMut(v) == v # "down"
ResultOrFalse(v) == v = "up"

\* len(saved[tag]) < MAX_PER_COUNTRY.get(tag, 0) (ip2.py 184, ip.py 118)
HasRoomMut(sv, tag) == TRUE
HasRoom(sv, tag) == Len(sv[tag]) < MAX_PER_COUNTRY(tag)

\* ok and len(saved[tag]) < MAX_PER_COUNTRY.get(tag, 0)
AcceptsLeMut(ok, sv, tag) == ok /\ Len(sv[tag]) <= MAX_PER_COUNTRY(tag)
Accepts(ok, sv, tag) == ok /\ HasRoom(sv, tag)

\* all(len(saved[c]) >= MAX_PER_COUNTRY.get(c, 0) for c in COUNTRIES)
AllQuotasMet(sv) ==
    \A k \in 1..Len(COUNTRIES) : Len(sv[COUNTRIES[k]]) >= MAX_PER_COUNTRY(COUNTRIES[k])

\* list.sort(key=lambda t: t[0]): insertion of e into a list sorted by t[0];
\* equal keys keep their order (the sort is stable).
RECURSIVE InsertByIdxMut(_, _)
InsertByIdxMut(e, s) ==
    IF s = <<>> THEN <<e>>
    ELSE IF e[1] > Head(s)[1] THEN <<e>> \o s
    ELSE <<Head(s)>> \o InsertByIdxMut(e, Tail(s))

RECURSIVE InsertByIdx(_, _)
InsertByIdx(e, s) ==
    IF s = <<>> THEN <<e>>
    ELSE IF e[1] < Head(s)[1] THEN <<e>> \o s
    ELSE <<Head(s)>> \o InsertByIdx(e, Tail(s))

RECURSIVE SortRev(_)
SortRev(s) == IF s = <<>> THEN <<>> ELSE InsertByIdx(s[Len(s)], SortRev(SubSeq(s, 1, Len(s) - 1)))

\* saved[c].sort(key=lambda t: t[0])
SortBucketMut(s) == s
SortBucket(s) == SortRev(s)

\* [ln for (_, ln) in saved.get(c, [])]
BucketLines(s) == [k \in 1..Len(s) |-> s[k][2]]

\* The order in which write_output walks the buckets: `for c in COUNTRIES`.
WriteOrderMut == [k \in 1..Len(COUNTRIES) |-> COUNTRIES[Len(COUNTRIES) + 1 - k]]
WriteOrder == COUNTRIES

\* write_output: the lines written, bucket after bucket.
RECURSIVE LinesFrom(_, _)
LinesFrom(sv, k) ==
    IF k > Len(WriteOrder) THEN <<>>
    ELSE BucketLines(sv[WriteOrder[k]]) \o LinesFrom(sv, k + 1)

write_output(sv) == LinesFrom(sv, 1)

\* sum(len(v) for v in saved.values())
RECURSIVE SumLens(_, _)
SumLens(sv, k) ==
    IF k > Len(COUNTRIES) THEN 0 ELSE Len(sv[COUNTRIES[k]]) + SumLens(sv, k + 1)

total_savedMut(sv) == 0
total_saved(sv) == SumLens(sv, 1)

\* What main prints before it exits (lines 218, 223, 230, 233): o is the branch
\* taken, t the tested count, n the number of saved lines.
Report(o, t, n) ==
    CASE o = "fetch_failed" -> <<"Fetch failed:">>
      [] o = "no_candidates" -> <<"No candidates found for tags.">>
      [] o = "none_reachable" ->
            <<"No reachable lines found (tested ", ToString(t), " candidates).">>
      [] o = "saved" ->
            <<"Saved ", ToString(n), " lines to ", "OUT_FILE", " (tested ", ToString(t),
              " candidates).">>
      [] OTHER -> <<>>

\* The status main exits with (lines 219, 224, 237).
ExitStatus(o) == IF o = "fetch_failed" THEN 1 ELSE 0

Futures == 1..Len(fstate)

\* Worker threads that hold a work item.
Busy == {i \in Futures : fstate[i] \in {"taken", "running"}}

Running == {i \in Futures : fstate[i] = "running"}

\* The head of the executor's work queue; cancelled items are popped and dropped.
QueueHead == {i \in Futures : fstate[i] = "queued" /\ \A j \in Futures : fstate[j] = "queued" => i <= j}

----------------------------------------------------------------------------
\* Initial states.

Blank ==
    /\ tagCandidates = <<>>
    /\ tagSaved = EmptySaved
    /\ tagOut = <<>>
    /\ workers = 0
    /\ fstate = <<>>
    /\ snap = {}
    /\ arrivals = <<>>
    /\ yielded = <<>>
    /\ saved = EmptySaved
    /\ tested = 0
    /\ ci = 0
    /\ out = <<>>
    /\ written = FALSE
    /\ outcome = None
    /\ inFlightAtStop = {}

\* ip2.py run as a program; is_reachable catches what its probes raise, so
\* its futures hold True or False.
InitMain ==
    /\ entry = "main"
    /\ text \in TextsOver(MainPool, MaxLines)
    /\ verdict \in [Addrs -> {"up", "down"}]
    /\ pc = "main"
    /\ candidates = <<>>
    /\ Blank

\* run_concurrent_tests called with the candidates of a short text, and with
\* probes that may also raise (lines 180-183 provide for it).
InitCall ==
    /\ entry = "call"
    /\ text \in TextsOver(MainPool, MaxCallLines)
    /\ verdict \in [Addrs -> Verdicts]
    /\ pc = "rct"
    /\ candidates = collect_candidates(text)
    /\ Blank

\* ip.py run as a program.
InitTag ==
    /\ entry = "tag"
    /\ text \in TextsOver(CollectPool, MaxCollectLines)
    /\ verdict = [a \in Addrs |-> "down"]
    /\ pc = "tag_main"
    /\ candidates = <<>>
    /\ Blank

Init == InitMain \/ InitCall \/ InitTag

\* collect_candidates of either file, called on a text.
InitCollect ==
    /\ entry = "collect"
    /\ text \in TextsOver(CollectPool, MaxCollectLines)
    /\ verdict = [a \in Addrs |-> "down"]
    /\ pc = "collect"
    /\ candidates = <<>>
    /\ Blank

----------------------------------------------------------------------------
\* main, up to the call of run_concurrent_tests.

\* fetch_text raised: print, sys.exit(1).
MainFetchFail ==
    /\ pc = "main"
    /\ pc' = "exit"
    /\ outcome' = "fetch_failed"
    /\ UNCHANGED <<text, verdict, entry, candidates, tagCandidates, tagSaved, tagOut, workers, fstate,
                   snap, arrivals, yielded, saved, tested, ci, out, written, inFlightAtStop>>

\* candidates = collect_candidates(text); if not candidates: sys.exit(0)
MainCollect ==
    /\ pc = "main"
    /\ candidates' = collect_candidates(text)
    /\ IF candidates' = <<>>
       THEN pc' = "exit" /\ outcome' = "no_candidates"
       ELSE pc' = "rct" /\ outcome' = outcome
    /\ UNCHANGED <<text, verdict, entry, tagCandidates, tagSaved, tagOut, workers, fstate,
                   snap, arrivals, yielded, saved, tested, ci, out, written, inFlightAtStop>>

----------------------------------------------------------------------------
\* run_concurrent_tests: the coordinating thread.

\* Lines 161-167: the buckets, the counter, the early return, the pool size.
RctEntry ==
    /\ pc = "rct"
    /\ saved' = EmptySaved
    /\ IF candidates = <<>>
       THEN /\ tested' = 0
            /\ pc' = "returned"
            /\ workers' = workers
       ELSE /\ tested' = 0
            /\ pc' = "submit"
            /\ workers' = PoolSize(Len(candidates))
    /\ UNCHANGED <<text, verdict, entry, candidates, tagCandidates, tagSaved, tagOut, fstate,
                   snap, arrivals, yielded, ci, out, written, outcome, inFlightAtStop>>

\* Lines 169-172: one ex.submit; future i belongs to candidates[i].
Submit ==
    /\ pc = "submit"
    /\ Len(fstate) < Len(candidates)
    /\ fstate' = Append(fstate, "queued")
    /\ pc' = IF Len(fstate') = Len(candidates) THEN "as_completed" ELSE "submit"
    /\ UNCHANGED <<text, verdict, entry, candidates, tagCandidates, tagSaved, tagOut, workers,
                   snap, arrivals, yielded, saved, tested, ci, out, written, outcome,
                   inFlightAtStop>>

\* Line 174: as_completed starts: the futures already finished are set aside,
\* a waiter is installed on the others.
AsCompletedStart ==
    /\ pc = "as_completed"
    /\ snap' = {i \in Futures : fstate[i] = "finished"}
    /\ arrivals' = <<>>
    /\ pc' = "consume"
    /\ UNCHANGED <<text, verdict, entry, candidates, tagCandidates, tagSaved, tagOut, workers, fstate,
                   yielded, saved, tested, ci, out, written, outcome, inFlightAtStop>>

\* saved[tag].append((idx, line)) (line 185)
AppendEntryMut(b, en) == <<en>>
AppendEntry(b, en) == Append(b, en)

\* as_completed has yielded every future it was given: the for loop of line 174 ends.
ExhaustedMut(y, f) == FALSE
Exhausted(y, f) == Len(y) = Len(f)

\* Lines 175-193: the loop body for the future as_completed yields.
Body(i) ==
    LET cand == candidates[i]
        ok == ResultOrFalse(verdict[cand.ip])
        sv == IF Accepts(ok, saved, cand.tag)
              THEN [saved EXCEPT ![cand.tag] = AppendEntry(@, <<cand.idx, cand.line>>)]
              ELSE saved
    IN  /\ tested' = TestedAfter(tested, ok)
        /\ saved' = sv
        /\ yielded' = Append(yielded, i)
        /\ IF AllQuotasMet(sv)
           THEN pc' = "cancel" /\ ci' = 1 /\ inFlightAtStop' = Running
           ELSE /\ pc' = IF Exhausted(yielded', fstate) THEN "shutdown" ELSE "consume"
                /\ ci' = ci
                /\ inFlightAtStop' = inFlightAtStop

\* as_completed yields a future that had finished before it started
\* (in the iteration order of a set).
ConsumeSnap ==
    /\ pc = "consume"
    /\ \E i \in snap :
        /\ snap' = snap \ {i}
        /\ arrivals' = arrivals
        /\ Body(i)
    /\ UNCHANGED <<text, verdict, entry, candidates, tagCandidates, tagSaved, tagOut, workers, fstate,
                   out, written, outcome>>

\* as_completed yields the futures that finished later, in finishing order.
ConsumeArrival ==
    /\ pc = "consume"
    /\ snap = {}
    /\ arrivals # <<>>
    /\ arrivals' = Tail(arrivals)
    /\ snap' = snap
    /\ Body(Head(arrivals))
    /\ UNCHANGED <<text, verdict, entry, candidates, tagCandidates, tagSaved, tagOut, workers, fstate,
                   out, written, outcome>>

\* Line 193: `break` leaves the as_completed loop for the end of the with block.
AfterCancelLoopMut == "consume"
AfterCancelLoop == "shutdown"

\* Lines 187-192: one turn of the cancellation loop. Future.cancel() succeeds on
\* a future that no worker has set running, and fails on the others.
CancelStep ==
    /\ pc = "cancel"
    /\ ci <= Len(fstate)
    /\ fstate' = IF fstate[ci] \in {"queued", "taken"}
                 THEN [fstate EXCEPT ![ci] = "cancelled"]
                 ELSE fstate
    /\ ci' = ci + 1
    /\ pc' = IF ci' > Len(fstate) THEN AfterCancelLoop ELSE "cancel"
    /\ UNCHANGED <<text, verdict, entry, candidates, tagCandidates, tagSaved, tagOut, workers,
                   snap, arrivals, yielded, saved, tested, out, written, outcome,
                   inFlightAtStop>>

\* Leaving the with block: shutdown(wait=True) joins the workers, which first
\* drain the queue; then lines 195-197 sort the buckets and return.
Return ==
    /\ pc = "shutdown"
    /\ \A i \in Futures : fstate[i] \in {"finished", "cancelled"}
    /\ saved' = [c \in CountrySet |-> SortBucket(saved[c])]
    /\ pc' = IF entry = "main" THEN "report" ELSE "returned"
    /\ UNCHANGED <<text, verdict, entry, candidates, tagCandidates, tagSaved, tagOut, workers, fstate,
                   snap, arrivals, yielded, tested, ci, out, written, outcome,
                   inFlightAtStop>>

----------------------------------------------------------------------------
\* The executor's worker threads (concurrent.futures.thread._worker).

\* A free worker pops the head of the work queue.
WorkerTake ==
    /\ Cardinality(Busy) < workers
    /\ \E i \in QueueHead : fstate' = [fstate EXCEPT ![i] = "taken"]
    /\ UNCHANGED <<text, verdict, entry, pc, candidates, tagCandidates, tagSaved, tagOut, workers,
                   snap, arrivals, yielded, saved, tested, ci, out, written, outcome,
                   inFlightAtStop>>

\* work_item.run(): set_running_or_notify_cancel() on a pending future.
WorkerStart ==
    /\ \E i \in Futures :
        /\ fstate[i] = "taken"
        /\ fstate' = [fstate EXCEPT ![i] = "running"]
    /\ UNCHANGED <<text, verdict, entry, pc, candidates, tagCandidates, tagSaved, tagOut, workers,
                   snap, arrivals, yielded, saved, tested, ci, out, written, outcome,
                   inFlightAtStop>>

\* is_reachable returned or raised: set_result / set_exception, which also
\* hands the future to the waiter of a running as_completed.
WorkerFinish ==
    /\ \E i \in Futures :
        /\ fstate[i] = "running"
        /\ fstate' = [fstate EXCEPT ![i] = "finished"]
        /\ arrivals' = IF pc = "consume" THEN Append(arrivals, i) ELSE arrivals
    /\ UNCHANGED <<text, verdict, entry, pc, candidates, tagCandidates, tagSaved, tagOut, workers,
                   snap, yielded, saved, tested, ci, out, written, outcome,
                   inFlightAtStop>>

----------------------------------------------------------------------------
\* main, after run_concurrent_tests returned (lines 227-237).

\* write_output first looks for the directory of OUT_FILE, which is the
\* directory of the script itself (BASE_DIR), and then opens the file.
MainReport ==
    /\ pc = "report"
    /\ IF total_saved(saved) = 0
       THEN /\ outcome' = "none_reachable"
            /\ out' = out
            /\ written' = written
       ELSE /\ outcome' = "saved"
            /\ out' = write_output(saved)
            /\ written' = TRUE
    /\ pc' = "exit"
    /\ UNCHANGED <<text, verdict, entry, candidates, tagCandidates, tagSaved, tagOut, workers, fstate,
                   snap, arrivals, yielded, saved, tested, ci, inFlightAtStop>>

----------------------------------------------------------------------------
\* ip.py: main and save_candidates.

\* ip.py save_candidates, lines 116-119: the loop from candidate k on.
RECURSIVE SaveFrom(_, _, _)
SaveFrom(cs, k, sv) ==
    IF k > Len(cs) THEN sv
    ELSE SaveFrom(cs, k + 1,
             IF HasRoom(sv, cs[k].tag)
             THEN [sv EXCEPT ![cs[k].tag] = Append(@, <<cs[k].idx, cs[k].line>>)]
             ELSE sv)

\* ip.py main, lines 137-141.
TagMain ==
    /\ pc = "tag_main"
    /\ tagCandidates' = collect_candidates_tag(text)
    /\ IF tagCandidates' = <<>>
       THEN pc' = "exit" /\ outcome' = "no_candidates"
       ELSE pc' = "tag_save" /\ outcome' = outcome
    /\ UNCHANGED <<text, verdict, entry, candidates, tagSaved, tagOut, workers, fstate,
                   snap, arrivals, yielded, saved, tested, ci, out, written, inFlightAtStop>>

\* ip.py save_candidates: fill the buckets, write them in COUNTRIES order.
TagSave ==
    /\ pc = "tag_save"
    /\ tagSaved' = SaveFrom(tagCandidates, 1, EmptySaved)
    /\ tagOut' = write_output(tagSaved')
    /\ outcome' = "tag_saved"
    /\ pc' = "exit"
    /\ UNCHANGED <<text, verdict, entry, candidates, tagCandidates, workers, fstate,
                   snap, arrivals, yielded, saved, tested, ci, out, written, inFlightAtStop>>

Next ==
    \/ MainFetchFail
    \/ MainCollect
    \/ RctEntry
    \/ Submit
    \/ AsCompletedStart
    \/ ConsumeSnap
    \/ ConsumeArrival
    \/ CancelStep
    \/ Return
    \/ WorkerTake
    \/ WorkerStart
    \/ WorkerFinish
    \/ MainReport
    \/ TagMain
    \/ TagSave

Spec == Init /\ [][Next]_vars

----------------------------------------------------------------------------
\* collect_candidates alone, of ip2.py and of ip.py.

CollectGeo ==
    /\ pc = "collect"
    /\ candidates' = collect_candidates(text)
    /\ pc' = "collected_geo"
    /\ UNCHANGED <<text, verdict, entry, tagCandidates, tagSaved, tagOut, workers, fstate,
                   snap, arrivals, yielded, saved, tested, ci, out, written, outcome,
                   inFlightAtStop>>

CollectTag ==
    /\ pc = "collect"
    /\ tagCandidates' = collect_candidates_tag(text)
    /\ pc' = "collected_tag"
    /\ UNCHANGED <<text, verdict, entry, candidates, tagSaved, tagOut, workers, fstate,
                   snap, arrivals, yielded, saved, tested, ci, out, written, outcome,
                   inFlightAtStop>>

NextCollect == CollectGeo \/ CollectTag

SpecCollect == InitCollect /\ [][NextCollect]_vars

----------------------------------------------------------------------------
\* run_concurrent_tests alone, with threads that keep running.

\* Candidate lines only: every line of the text becomes a candidate.
LivePool == { <<"1.1.1.1">>, <<"2.2.2.2">>, <<"3.3.3.3">>, <<"3.3.3.3", WS, "x">> }

\* Texts of up to n lines of the pool, no line twice.
DistinctTextsOver(pool, n) ==
    {JoinLines(ls) : ls \in {l \in LineSeqs(pool, n) :
                                \A p, q \in 1..Len(l) : p # q => l[p] # l[q]}}

InitLive ==
    /\ entry = "call"
    /\ text \in DistinctTextsOver(LivePool, MaxLiveLines)
    /\ verdict \in [Addrs -> Verdicts]
    /\ pc = "rct"
    /\ candidates = collect_candidates(text)
    /\ Blank

NextRct ==
    \/ RctEntry
    \/ Submit
    \/ AsCompletedStart
    \/ ConsumeSnap
    \/ ConsumeArrival
    \/ CancelStep
    \/ Return
    \/ WorkerTake
    \/ WorkerStart
    \/ WorkerFinish

\* The coordinating thread and the worker threads are scheduled again and
\* again, and every started probe returns or raises (is_reachable bounds each
\* of its attempts by a timeout).
Fairness ==
    /\ WF_vars(RctEntry)
    /\ WF_vars(Submit)
    /\ WF_vars(AsCompletedStart)
    /\ WF_vars(ConsumeSnap)
    /\ WF_vars(ConsumeArrival)
    /\ WF_vars(CancelStep)
    /\ WF_vars(Return)
    /\ WF_vars(WorkerTake)
    /\ WF_vars(WorkerStart)
    /\ WF_vars(WorkerFinish)

SpecLive == InitLive /\ [][NextRct]_vars /\ Fairness

----------------------------------------------------------------------------
\* Vocabulary of the properties.

\* run_concurrent_tests has returned.
Returned == pc \in {"report", "returned"} \/ outcome \in {"none_reachable", "saved"}

\* The lines of the input text.
RawLines == splitlines(text)

Elems(s) == {s[k] : k \in 1..Len(s)}

AllWS(s) == \A k \in 1..Len(s) : s[k] = WS

\* l is r without its leading and trailing whitespace.
IsTrimOf(l, r) ==
    /\ l # <<>>
    /\ l[1] # WS
    /\ l[Len(l)] # WS
    /\ \E a \in 0..Len(r) :
        /\ a + Len(l) <= Len(r)
        /\ SubSeq(r, a + 1, a + Len(l)) = l
        /\ AllWS(SubSeq(r, 1, a))
        /\ AllWS(SubSeq(r, a + Len(l) + 1, Len(r)))

Cands == 1..Len(candidates)

Reachable(i) == verdict[candidates[i].ip] = "up"

ReachableOf(c) == {i \in Cands : candidates[i].tag = c /\ Reachable(i)}

\* The candidate an output line came from.
CandOf(l) == CHOOSE i \in Cands : candidates[i].line = l

\* Position of a country in the priority order sg, hk, jp, tw, kr, us.
Rank(c) == CHOOSE k \in 1..Len(AllCountries) : AllCountries[k] = c

NoDuplicates(s) == \A p, q \in 1..Len(s) : p # q => s[p] # s[q]

\* The output positions that hold a line of country c.
Segment(c) == {p \in 1..Len(out) : candidates[CandOf(out[p])].tag = c}

----------------------------------------------------------------------------
\* The positions of ip.py's output that hold a line of country c.
TagSegment(c) ==
    {p \in 1..Len(tagOut) :
        \E i \in 1..Len(tagCandidates) :
            tagCandidates[i].line = tagOut[p] /\ tagCandidates[i].tag = c}

\* ip.py wrote its output from more candidates of one country than the quota.
TagQuotaBites ==
    /\ outcome = "tag_saved"
    /\ \E c \in CountrySet :
        Cardinality({i \in 1..Len(tagCandidates) : tagCandidates[i].tag = c}) > MAX_PER_COUNTRY(c)

\* C1: at every moment of verification and in the final output, no country
\* holds more accepted lines than its quota (ip2.py run_concurrent_tests and
\* write_output; ip.py save_candidates).
C1_QuotaNeverExceeded ==
    /\ \A c \in CountrySet : Len(saved[c]) <= MAX_PER_COUNTRY(c)
    /\ \A c \in CountrySet : Cardinality(Segment(c)) <= MAX_PER_COUNTRY(c)
    /\ \A c \in CountrySet : Len(tagSaved[c]) <= MAX_PER_COUNTRY(c)
    /\ \A c \in CountrySet : Cardinality(TagSegment(c)) <= MAX_PER_COUNTRY(c)

\* A reachable candidate was consumed and turned away because its bucket was full.
C1_Witness ==
    \E i \in Elems(yielded) :
        /\ Reachable(i)
        /\ Len(saved[candidates[i].tag]) = MAX_PER_COUNTRY(candidates[i].tag)
        /\ <<candidates[i].idx, candidates[i].line>> \notin Elems(saved[candidates[i].tag])

\* C2 as stated: every output line is, as it stands, a line of the input text,
\* and no output line occurs twice.
C2_OutputVerbatimInputLines ==
    written => /\ \A p \in 1..Len(out) : out[p] \in Elems(RawLines)
               /\ NoDuplicates(out)

\* C2 amended: every output line is a line of the input text without its
\* leading and trailing whitespace, and no output line occurs twice.
C2_OutputTrimmedInputLines ==
    written => /\ \A p \in 1..Len(out) : \E r \in Elems(RawLines) : IsTrimOf(out[p], r)
               /\ NoDuplicates(out)

\* The input held the same line twice, once with surrounding whitespace, and
\* the line was written.
C2_Witness ==
    /\ written
    /\ \E j, k \in 1..Len(RawLines) :
        /\ j # k
        /\ RawLines[j] # RawLines[k]
        /\ \E p \in 1..Len(out) : IsTrimOf(out[p], RawLines[j]) /\ IsTrimOf(out[p], RawLines[k])

\* C3: within a country's segment of the output, the lines stand in strictly
\* ascending input index, whatever the order the probes completed in.
C3_SegmentIndexAscending ==
    /\ Returned =>
        \A c \in CountrySet : \A p, q \in 1..Len(saved[c]) :
            p < q => saved[c][p][1] < saved[c][q][1]
    /\ written =>
        \A c \in CountrySet : \A p, q \in Segment(c) :
            p < q => candidates[CandOf(out[p])].idx < candidates[CandOf(out[q])].idx

\* Two lines of one country were written, and the later one in the input was
\* accepted first.
C3_Witness ==
    /\ written
    /\ \E a, b \in 1..Len(yielded) :
        /\ a < b
        /\ yielded[a] > yielded[b]
        /\ candidates[yielded[a]].tag = candidates[yielded[b]].tag
        /\ candidates[yielded[a]].line \in Elems(out)
        /\ candidates[yielded[b]].line \in Elems(out)

\* C4: the output is the buckets in the order sg, hk, jp, tw, kr, us: a line of
\* an earlier country stands before every line of a later country.
C4_CountryPriorityOrder ==
    written =>
        \A p, q \in 1..Len(out) :
            Rank(candidates[CandOf(out[p])].tag) < Rank(candidates[CandOf(out[q])].tag) => p < q

\* A line of an earlier country was written before a line of a later country
\* that precedes it in the input.
C4_Witness ==
    /\ written
    /\ \E p, q \in 1..Len(out) :
        /\ p < q
        /\ Rank(candidates[CandOf(out[p])].tag) < Rank(candidates[CandOf(out[q])].tag)
        /\ candidates[CandOf(out[p])].idx > candidates[CandOf(out[q])].idx

\* Line 186 has found every quota met (the cancellation loop has begun).
StopDecided == ci > 0

\* C5 as stated: when the quotas are met with a verdict still unconsumed,
\* tested stays below the number of candidates, and from the stop decision to
\* the return no probe runs but those that were running at the stop decision.
C5_WaitsOnlyForInFlightAtStop ==
    /\ (StopDecided /\ Len(yielded) < Len(candidates)) => tested < Len(candidates)
    /\ StopDecided => Running \subseteq inFlightAtStop

\* The first half of C5 alone.
C5_TestedBelowTotal ==
    (StopDecided /\ Len(yielded) < Len(candidates)) => tested < Len(candidates)

\* What the code does keep after the stop decision: once the cancellation loop
\* has passed a future, that future is finished, cancelled or running.
C5_CancelledOrStarted ==
    StopDecided => \A i \in Futures : i < ci => fstate[i] \in {"finished", "cancelled", "running"}

\* The buckets of the run in which the probes complete in submission order.
RECURSIVE InOrderRun(_, _)
InOrderRun(k, sv) ==
    IF k > Len(candidates) THEN sv
    ELSE LET c == candidates[k]
             sv2 == IF Reachable(k) /\ Len(sv[c.tag]) < MAX_PER_COUNTRY(c.tag)
                    THEN [sv EXCEPT ![c.tag] = Append(@, <<c.idx, c.line>>)]
                    ELSE sv
         IN  IF \A d \in CountrySet : Len(sv2[d]) >= MAX_PER_COUNTRY(d)
             THEN sv2
             ELSE InOrderRun(k + 1, sv2)

\* C6 as stated: with the candidates and the verdicts fixed, every completion
\* order gives the output of the run that completes in submission order.
C6_OutputSameForEveryOrder ==
    Returned => write_output(saved) = write_output(InOrderRun(1, [c \in CountrySet |-> <<>>]))

\* The lines of all reachable candidates, country after country in priority
\* order, in input order within a country.
RECURSIVE AllReachableFrom(_)
AllReachableFrom(k) ==
    IF k > Len(COUNTRIES) THEN <<>>
    ELSE LET cs == SelectSeq(candidates, LAMBDA x : x.tag = COUNTRIES[k] /\ verdict[x.ip] = "up")
         IN  [j \in 1..Len(cs) |-> cs[j].line] \o AllReachableFrom(k + 1)

WithinQuotas == \A c \in CountrySet : Cardinality(ReachableOf(c)) <= MAX_PER_COUNTRY(c)

\* C6 amended: when no country has more reachable candidates than its quota,
\* every completion order gives the same output: all reachable lines.
C6_OutputSameWithinQuotas ==
    /\ (Returned /\ WithinQuotas) => write_output(saved) = AllReachableFrom(1)
    /\ (written /\ WithinQuotas) => out = AllReachableFrom(1)

\* Two lines were written that as_completed yielded in the reverse of their
\* input order, with no country over its quota.
C6_Witness ==
    /\ written
    /\ WithinQuotas
    /\ \E a, b \in 1..Len(yielded) :
        /\ a < b
        /\ yielded[a] > yielded[b]
        /\ Reachable(yielded[a])
        /\ Reachable(yielded[b])

\* C7: on return every bucket holds min(quota, number of reachable candidates
\* of the country) entries, and so does the country's segment of the output.
C7_BucketSizeIsMin ==
    /\ Returned =>
        \A c \in CountrySet :
            Len(saved[c]) = Min(MAX_PER_COUNTRY(c), Cardinality(ReachableOf(c)))
    /\ written =>
        \A c \in CountrySet :
            Cardinality(Segment(c)) = Min(MAX_PER_COUNTRY(c), Cardinality(ReachableOf(c)))

\* A country with more reachable candidates than its quota was written with
\* exactly quota lines, the probes having completed out of input order.
C7_Witness ==
    /\ written
    /\ \E c \in CountrySet :
        /\ Cardinality(ReachableOf(c)) > MAX_PER_COUNTRY(c)
        /\ Cardinality(Segment(c)) = MAX_PER_COUNTRY(c)
    /\ \E a, b \in 1..Len(yielded) : a < b /\ yielded[a] > yielded[b]

\* C8 (ip2.py): with no candidate, no probe is submitted, the output file is
\* never written, and run_concurrent_tests returns an empty bucket for every
\* recognized country and tested = 0.
C8_EmptyCandidates ==
    (entry \in {"main", "call"} /\ candidates = <<>> /\ pc # "main") =>
        /\ fstate = <<>>
        /\ ~written
        /\ out = <<>>
        /\ pc \in {"rct", "returned", "exit"}
        /\ pc = "returned" =>
            /\ DOMAIN saved = CountrySet
            /\ \A c \in CountrySet : saved[c] = <<>>
            /\ tested = 0

\* run_concurrent_tests has returned from a call with no candidate.
C8_Witness == entry = "call" /\ candidates = <<>> /\ pc = "returned"

\* C9: with candidates of which none is reachable, run_concurrent_tests
\* returns empty buckets and tested = number of candidates: every probe ran to
\* its end and was consumed, none was cancelled.
C9_NoneReachable ==
    (Returned /\ candidates # <<>> /\ \A i \in Cands : ~Reachable(i)) =>
        /\ \A c \in CountrySet : saved[c] = <<>>
        /\ tested = Len(candidates)
        /\ Len(yielded) = Len(candidates)
        /\ \A i \in Cands : fstate[i] = "finished"
        /\ ~StopDecided

\* main reported that none of several candidates was reachable.
C9_Witness ==
    /\ outcome = "none_reachable"
    /\ Len(candidates) >= 2
    /\ \A i \in Cands : ~Reachable(i)
    /\ tested = Len(candidates)

\* What C10 asks of a candidate list cs collected from the text, alone being
\* the same collection applied to a text of one line.
DedupOK(cs, alone(_)) ==
    /\ \A i, j \in 1..Len(cs) : i # j => cs[i].line # cs[j].line
    /\ \A i \in 1..Len(cs) :
        /\ cs[i].idx + 1 \in 1..Len(RawLines)
        /\ IsTrimOf(cs[i].line, RawLines[cs[i].idx + 1])
        /\ \A k \in 1..cs[i].idx : ~IsTrimOf(cs[i].line, RawLines[k])
    /\ \A k \in 1..Len(RawLines) :
        alone(RawLines[k]) # <<>> => \E i \in 1..Len(cs) : IsTrimOf(cs[i].line, RawLines[k])

\* C10: collect_candidates (of either file) yields at most one candidate per
\* distinct trimmed line, with the index of the line's first occurrence; a
\* line that is collected when it stands alone is collected exactly once.
C10_CollectedOnceAtFirstIndex ==
    /\ pc = "collected_geo" => DedupOK(candidates, collect_candidates)
    /\ pc = "collected_tag" => DedupOK(tagCandidates, collect_candidates_tag)

\* A text of three lines, the first without a tag, the next two the same line
\* up to surrounding whitespace: one candidate, at index 1.
C10_Witness ==
    /\ pc = "collected_tag"
    /\ Len(RawLines) = 3
    /\ RawLines[2] # RawLines[3]
    /\ Len(tagCandidates) = 1
    /\ tagCandidates[1].idx = 1
    /\ IsTrimOf(tagCandidates[1].line, RawLines[2])
    /\ IsTrimOf(tagCandidates[1].line, RawLines[3])

\* The probe of candidate i raised.
Raised(i) == verdict[candidates[i].ip] = "raise"

\* The loop body has just run for future i.
Consumed(i) == yielded' = Append(yielded, i)

\* C11: a probe that raised is handled like an unreachable one: the loop body
\* counts it in tested, leaves every bucket as it was, and goes on to the next
\* verdict (or, after the last one, to the normal return); no raised candidate
\* is ever in a bucket, and tested counts every consumed verdict.
C11_RaisedProbeIsUnreachable ==
    /\ [](\A i \in Elems(yielded) :
            Raised(i) => \A c \in CountrySet :
                            <<candidates[i].idx, candidates[i].line>> \notin Elems(saved[c]))
    /\ [](tested = Len(yielded))
    /\ [][\A i \in Cands :
            (Consumed(i) /\ Raised(i)) =>
                /\ tested' = tested + 1
                /\ saved' = saved
                /\ pc' = IF Len(yielded') = Len(candidates) THEN "shutdown" ELSE "consume"]_vars

\* run_concurrent_tests returned after a probe raised while its bucket had
\* room, and accepted a candidate whose verdict it consumed after that.
C11_Witness ==
    /\ pc = "returned"
    /\ \E a, b \in 1..Len(yielded) :
        /\ a < b
        /\ Raised(yielded[a])
        /\ Reachable(yielded[b])
        /\ candidates[yielded[a]].tag = candidates[yielded[b]].tag
        /\ <<candidates[yielded[b]].idx, candidates[yielded[b]].line>>
               \in Elems(saved[candidates[yielded[b]].tag])

\* The entries of a bucket, whatever their order.
Entries(sv, c) == Elems(sv[c])

EntryOf(i) == <<candidates[i].idx, candidates[i].line>>

\* C12: from the stop decision on, no entry is added to or taken from any
\* bucket (lines 195-196 only put each bucket in input order), tested is not
\* incremented and no further verdict is consumed; a cancelled task, and a
\* task that was not consumed before the stop decision, is in no bucket.
C12_NothingAcceptedAfterStop ==
    /\ [](StopDecided =>
            \A i \in Futures :
                (fstate[i] = "cancelled" \/ i \notin Elems(yielded)) =>
                    \A c \in CountrySet : EntryOf(i) \notin Entries(saved, c))
    /\ [][StopDecided =>
            /\ tested' = tested
            /\ yielded' = yielded
            /\ \A c \in CountrySet :
                /\ Entries(saved', c) = Entries(saved, c)
                /\ Len(saved'[c]) = Len(saved[c])]_vars

\* run_concurrent_tests returned after a stop decision that found a probe
\* running; the probe then completed with verdict reachable.
C12_Witness ==
    /\ Returned
    /\ StopDecided
    /\ \E i \in inFlightAtStop :
        /\ fstate[i] = "finished"
        /\ Reachable(i)
        /\ i \notin Elems(yielded)
        /\ tested < Len(candidates)

\* run_concurrent_tests returned after a stop decision whose cancellation
\* loop cancelled the task of a reachable candidate.
C12_CancelledReachable ==
    /\ Returned
    /\ \E i \in Futures : fstate[i] = "cancelled" /\ Reachable(i)

\* At least one candidate is in a bucket.
SomeAccepted == \E c \in CountrySet : saved[c] # <<>>

\* C13 (ip2.py main): "no candidates" is reported only when verification never
\* started, "none reachable" only when it ran (tested > 0) and accepted
\* nothing, and the two reports differ; the output file is written if and
\* only if at least one candidate was accepted.
C13_OutcomesDistinctWrittenIffAccepted ==
    entry = "main" =>
        /\ outcome = "no_candidates" =>
            /\ candidates = <<>> /\ fstate = <<>> /\ tested = 0
            /\ ~SomeAccepted /\ ~written
        /\ outcome = "none_reachable" =>
            /\ candidates # <<>> /\ fstate # <<>> /\ tested > 0
            /\ ~SomeAccepted /\ ~written
            /\ Report(outcome, tested, 0) # Report("no_candidates", 0, 0)
        /\ written => SomeAccepted /\ out # <<>>
        /\ (pc = "exit" /\ outcome # "fetch_failed") => (written <=> SomeAccepted)

\* main exited with the report of a verification that tested every candidate of
\* a text that also held other lines, and accepted none.
C13_Witness ==
    /\ entry = "main"
    /\ pc = "exit"
    /\ outcome = "none_reachable"
    /\ ExitStatus(outcome) = 0
    /\ tested = Len(candidates)
    /\ Len(RawLines) > Len(candidates)
    /\ ~written

\* Lines 195-196 followed by write_output: the buckets sorted, then written.
SortAll(sv) == [c \in CountrySet |-> SortBucket(sv[c])]

Assemble(sv) == write_output(SortAll(sv))

\* The orders in which the entries of a bucket can have been appended.
Orders(s) == {t \in [1..Len(s) -> Elems(s)] : Elems(t) = Elems(s)}

\* C14: assembly (the bucket sort and write_output) applied to buckets it has
\* already sorted gives the same output as its first application, the file
\* written is that output, and the output is the same for every order in
\* which the entries of the buckets were appended.
C14_AssemblyIdempotent ==
    /\ Assemble(SortAll(saved)) = Assemble(saved)
    /\ SortAll(SortAll(saved)) = SortAll(saved)
    /\ \A sv \in [CountrySet -> UNION {Orders(saved[c]) : c \in CountrySet}] :
          (\A c \in CountrySet : sv[c] \in Orders(saved[c])) => Assemble(sv) = Assemble(saved)
    /\ written => out = Assemble(saved)

\* Verification ended with a bucket whose entries were appended against their
\* input order; the buckets are frozen and not yet sorted.
C14_Witness ==
    /\ pc = "shutdown"
    /\ \A i \in Futures : fstate[i] \in {"finished", "cancelled"}
    /\ \E c \in CountrySet :
        /\ Len(saved[c]) = 2
        /\ saved[c][1][1] > saved[c][2][1]

\* C15 as stated: from the moment line 186 finds every bucket full, a probe
\* that had not started by then never executes, whatever the worker threads
\* do while the cancellation loop runs; a probe that was running then is not
\* interrupted and has completed by the return.
C15_UnstartedNeverExecute ==
    /\ StopDecided => \A i \in Futures \ inFlightAtStop : fstate[i] # "running"
    /\ (StopDecided /\ Returned) => \A i \in inFlightAtStop : fstate[i] = "finished"

\* The part of C15 the code keeps: a probe that was running at the stop
\* decision is never cancelled and has completed by the return.
C15_RunningRunToCompletion ==
    StopDecided =>
        \A i \in inFlightAtStop :
            /\ fstate[i] \in {"running", "finished"}
            /\ Returned => fstate[i] = "finished"

\* The submit loop of lines 169-172 is over.
Submitted == pc \in {"as_completed", "consume", "cancel", "shutdown"} \/ (Returned /\ candidates # <<>>)

\* C16: at every moment at most min(MAX_WORKERS, number of candidates) probes
\* execute (and no more worker threads than that hold a probe); no candidate
\* is submitted twice, and once the submit loop is over every candidate has
\* exactly one future.
C16_ConcurrencyCapped ==
    /\ Cardinality(Running) <= Min(MAX_WORKERS, Len(candidates))
    /\ Cardinality(Busy) <= Min(MAX_WORKERS, Len(candidates))
    /\ Len(fstate) <= Len(candidates)
    /\ Submitted => Len(fstate) = Len(candidates)

\* MAX_WORKERS probes execute while a further candidate's probe waits in the queue.
C16_Witness ==
    /\ Len(candidates) > MAX_WORKERS
    /\ Cardinality(Running) = MAX_WORKERS
    /\ \E i \in Futures : fstate[i] = "queued"

\* A single candidate: the pool has one worker.
C16_FewerCandidatesThanWorkers ==
    /\ Len(candidates) = 1
    /\ workers = 1
    /\ Cardinality(Running) = 1

\* C17: a call of run_concurrent_tests returns, whatever the candidates and
\* the verdicts; when it has returned, either line 186 found every quota met,
\* or every probe completed and every verdict was consumed, the buckets
\* holding what was accepted.
C17_EventuallyReturns ==
    /\ (pc = "rct") ~> (pc = "returned")
    /\ [](pc = "returned" =>
            \/ candidates = <<>>
            \/ StopDecided /\ AllQuotasMet(saved)
            \/ /\ ~AllQuotasMet(saved)
               /\ \A i \in Futures : fstate[i] = "finished"
               /\ Len(yielded) = Len(candidates)
               /\ tested = Len(candidates))

\* run_concurrent_tests returned with a candidate accepted and a quota unmet,
\* after a probe that raised.
C17_Witness ==
    /\ pc = "returned"
    /\ ~StopDecided
    /\ SomeAccepted
    /\ ~AllQuotasMet(saved)
    /\ \E i \in Cands : Raised(i)
    /\ Len(candidates) >= 3

\* run_concurrent_tests returned after an early stop.
C17_ReturnedAfterStop == pc = "returned" /\ StopDecided /\ tested < Len(candidates)

\* The candidate lines of one of the two collections.
LinesOf(cs) == {cs[i].line : i \in 1..Len(cs)}

\* The trimmed lines of the text whose first dotted quad is out of range.
BadFirstQuadLines ==
    {strip(RawLines[k]) : k \in {j \in 1..Len(RawLines) :
        LET q == FirstQuad(strip(RawLines[j])) IN q # None /\ ~ValidQuad(q)}}

\* C18 as stated: the address of a line is its first dotted quad with four
\* components in 0..255, so that a line holding such a quad of a recognized
\* country is collected with it, also after an out-of-range dotted quad.
C18_FirstValidQuadCollected ==
    pc = "collected_geo" =>
        \A k \in 1..Len(RawLines) :
            LET l == strip(RawLines[k])
                v == FirstValidQuad(l)
            IN  (v # None /\ GeoCountry(v) \in CountrySet) =>
                    \E i \in Cands : candidates[i].line = l /\ candidates[i].ip = v

\* C18 amended: the address of a line is its first dotted quad (a CIDR suffix
\* left aside) if that quad has four components in 0..255; a line whose first
\* dotted quad is out of range is dropped by both files' collect_candidates,
\* whatever follows it, and a line whose first dotted quad is in range and of
\* a recognized country is collected with that quad.
C18_FirstQuadOrDropped ==
    /\ pc = "collected_geo" =>
        /\ \A i \in Cands :
            /\ candidates[i].ip = FirstQuad(candidates[i].line)
            /\ ValidQuad(candidates[i].ip)
            /\ candidates[i].tag = GeoCountry(candidates[i].ip)
        /\ LinesOf(candidates) \cap BadFirstQuadLines = {}
        /\ \A k \in 1..Len(RawLines) :
            LET l == strip(RawLines[k])
                q == FirstQuad(l)
            IN  (q # None /\ ValidQuad(q) /\ GeoCountry(q) \in CountrySet) =>
                    \E i \in Cands : candidates[i].line = l /\ candidates[i].ip = q
    /\ pc = "collected_tag" =>
        /\ LinesOf(tagCandidates) \cap BadFirstQuadLines = {}
        /\ \A i \in 1..Len(tagCandidates) : ValidQuad(FirstQuad(tagCandidates[i].line))

\* A text with a line whose out-of-range dotted quad is followed by a valid one
\* of a recognized country, and with a line that has a CIDR suffix: the first
\* is dropped, the second collected.
C18_Witness ==
    /\ pc = "collected_geo"
    /\ \E k \in 1..Len(RawLines) :
        /\ strip(RawLines[k]) \in BadFirstQuadLines
        /\ FirstValidQuad(RawLines[k]) # None
        /\ GeoCountry(FirstValidQuad(RawLines[k])) \in CountrySet
        /\ \A i \in Cands : candidates[i].idx # k - 1
    /\ \E i \in Cands : "/24" \in Elems(candidates[i].line) /\ candidates[i].ip = "2.2.2.2"

\* The reachable candidates of country c in the order their verdicts were consumed.
YieldedOf(c) == SelectSeq(yielded, LAMBDA i : candidates[i].tag = c /\ Reachable(i))

\* Those of them that were consumed while the bucket of c had room.
Winners(c) == SubSeq(YieldedOf(c), 1, Min(MAX_PER_COUNTRY(c), Len(YieldedOf(c))))

WinnerEntries(c) == [k \in 1..Len(Winners(c)) |-> EntryOf(Winners(c)[k])]

IsPrefix(s, t) == Len(s) <= Len(t) /\ SubSeq(t, 1, Len(s)) = s

\* C19: in every state, the entries of bucket saved[c] are those of the
\* candidates of country c whose probe completed reachable and whose verdict
\* was consumed while the bucket had fewer than MAX_PER_COUNTRY[c] entries (in
\* that order until the final sort); a step of verification appends at most
\* one entry to a bucket and removes or replaces none.
C19_BucketsHoldFirstConsumedReachable ==
    /\ [](\A c \in CountrySet :
            /\ Entries(saved, c) = Elems(WinnerEntries(c))
            /\ Len(saved[c]) = Len(WinnerEntries(c))
            /\ ~Returned => saved[c] = WinnerEntries(c)
            /\ \A k \in 1..Len(Winners(c)) :
                /\ fstate[Winners(c)[k]] = "finished"
                /\ candidates[Winners(c)[k]].tag = c
                /\ verdict[candidates[Winners(c)[k]].ip] = "up")
    /\ [][\A c \in CountrySet :
            \/ IsPrefix(saved[c], saved'[c]) /\ Len(saved'[c]) <= Len(saved[c]) + 1
            \/ /\ pc = "shutdown"
               /\ Entries(saved', c) = Entries(saved, c)
               /\ Len(saved'[c]) = Len(saved[c])]_vars

\* Of two reachable candidates of one country, the later in the input was
\* consumed first and holds the bucket's last place; the earlier was consumed
\* after it and is not in the bucket.
C19_Witness ==
    \E a, b \in 1..Len(yielded) :
        /\ a < b
        /\ yielded[a] > yielded[b]
        /\ candidates[yielded[a]].tag = candidates[yielded[b]].tag
        /\ Reachable(yielded[a])
        /\ Reachable(yielded[b])
        /\ EntryOf(yielded[a]) \in Entries(saved, candidates[yielded[a]].tag)
        /\ EntryOf(yielded[b]) \notin Entries(saved, candidates[yielded[b]].tag)

\* The countries c whose "#c" occurs in the line, whatever the case of its letters.
OccurringTags(line) == UNION {TagsIn(Lower(line[j])) : j \in 1..Len(line)}

\* ip.py's candidates tagged c, in input order, as bucket entries.
TaggedEntries(c) ==
    LET cs == SelectSeq(tagCandidates, LAMBDA x : x.tag = c)
    IN  [k \in 1..Len(cs) |-> <<cs[k].idx, cs[k].line>>]

\* The lines of ip.py's buckets, country after country in priority order.
RECURSIVE TagBucketsFrom(_)
TagBucketsFrom(k) ==
    IF k > NumCountries THEN <<>>
    ELSE BucketLines(tagSaved[AllCountries[k]]) \o TagBucketsFrom(k + 1)

\* C20 (ip.py): a candidate's tag is the first country, in the order of
\* COUNTRIES, whose "#<code>" occurs in its line (in either case); after
\* save_candidates the bucket of country c holds the first
\* min(MAX_PER_COUNTRY[c], number of candidates tagged c) candidates tagged c,
\* in input order, and the output is the buckets in the order of COUNTRIES.
C20_TagVariantKeepsFirstPerCountry ==
    /\ \A i \in 1..Len(tagCandidates) :
        /\ tagCandidates[i].tag \in OccurringTags(tagCandidates[i].line)
        /\ \A c \in OccurringTags(tagCandidates[i].line) \cap CountrySet :
              Rank(tagCandidates[i].tag) <= Rank(c)
        /\ \A j \in 1..Len(tagCandidates) : i < j => tagCandidates[i].idx < tagCandidates[j].idx
    /\ outcome = "tag_saved" =>
        /\ \A c \in CountrySet :
            /\ Len(tagSaved[c]) = Min(MAX_PER_COUNTRY(c), Len(TaggedEntries(c)))
            /\ tagSaved[c] = SubSeq(TaggedEntries(c), 1, Len(tagSaved[c]))
        /\ tagOut = TagBucketsFrom(1)

\* ip.py wrote its output from a text in which one country had more tagged
\* candidates than its quota, the "#<code>" of two countries occurred in one
\* line, and a line of the second country stood before a line of the first.
C20_Witness ==
    /\ TagQuotaBites
    /\ \E c \in CountrySet :
        Len(TaggedEntries(c)) > MAX_PER_COUNTRY(c) /\ Len(tagSaved[c]) = MAX_PER_COUNTRY(c)
    /\ \E i \in 1..Len(tagCandidates) :
        Cardinality(OccurringTags(tagCandidates[i].line) \cap CountrySet) >= 2
    /\ \E i, j \in 1..Len(tagCandidates) :
        i < j /\ Rank(tagCandidates[i].tag) > Rank(tagCandidates[j].tag)

====
